---- MODULE Spec2Model ----
(***************************************************************************)
(* TradeExecutor.executeArbitrageTrade (the trade execution pipeline) as a *)
(* state machine.  One invocation runs from "start" to "returned" (a       *)
(* TradeExecutionResult was returned) or "rejected" (an error left the     *)
(* function).  Every awaited collaborator call is one action; the          *)
(* synchronous code that follows the call, up to the next await, belongs   *)
(* to the same action.  A collaborator call either returns or throws.      *)
(*                                                                         *)
(* More specifications share the variables: SpecConcurrent interleaves    *)
(* two invocations at their awaits, SpecValidate runs one call of          *)
(* TradeExecutor.validateOpportunity, SpecQuote runs calls of              *)
(* DexAggregator.getQuote and DexAggregator.getTokenPrices.                *)
(*                                                                         *)
(* Units: balances are hundredths of a MATIC, gas prices are Gwei, money   *)
(* is whole USD, token amounts are hundredths of a token, times are        *)
(* milliseconds, profit percentages are hundredths of a percent.           *)
(***************************************************************************)
EXTENDS Integers, Sequences, FiniteSets, TLC

VARIABLES
    isSimulation,   \* argument isSimulation
    opportunity,    \* argument opportunity (read only)
    store,          \* what storage holds for the user: None or Some(BotConfig)
    envKey,         \* process.env.PRIVATE_KEY
    pc,             \* the await the invocation is suspended at
    config,         \* local const config (None until loaded)
    privateKey,     \* local const privateKey (None until resolved)
    maticBalance,   \* balance getNativeBalance returned (None until it returns)
    gasGwei,        \* price getGasPrice returned (None until it returns)
    buySwap,        \* local const buySwap (None until built)
    sellSwap,       \* local const sellSwap (None until built)
    err,            \* the error the outer catch block caught (None until then)
    events,         \* the collaborator calls made so far, in order
    txRecords,      \* the rows createArbitrageTransaction persisted, in order
    result,         \* the returned TradeExecutionResult (None until returned)
    thrown,         \* the error that left the function (None unless rejected)
    throws,         \* how many collaborator calls have thrown
    aggregator,     \* the methods a DexAggregator instance has
    now,            \* what Date.now() reads
    valid,          \* what validateOpportunity returned (None until it returns)
    apiKey,         \* DexAggregator.apiKey (None when no key is configured)
    last,           \* the latest completed DexAggregator call (None before it)
    previous,       \* the completed DexAggregator call before that one
    active,         \* which invocation the variables above describe (1 or 2)
    other           \* the suspended concurrent invocation's arguments and
                    \* locals (None when there is one invocation only)

vars == <<isSimulation, opportunity, store, envKey, pc, config, privateKey,
          maticBalance, gasGwei, buySwap, sellSwap, err, events, txRecords,
          result, thrown, throws, aggregator, now, valid, apiKey, last,
          previous, active, other>>

inputs == <<isSimulation, opportunity, store, envKey, aggregator, now>>

\* the state executeArbitrageTrade never touches
outside == <<valid, apiKey, last, previous, active, other>>

(***************************************************************************)
(* Optional values: None is undefined/null, Some(x) a present value.       *)
(***************************************************************************)
None == <<>>
Some(x) == <<x>>
Get(o) == o[1]

(***************************************************************************)
(* Bounds of the model.                                                    *)
(***************************************************************************)
\* at most this many collaborator calls throw during one invocation
MaxThrows == 2
\* the largest gas price the network collaborator reports
MaxGasGwei == 80
\* the largest balance the network collaborator reports (hundredths)
MaxBalance == 50

(***************************************************************************)
(* Program constants.                                                      *)
(***************************************************************************)
\* const minMaticRequired = 0.1, in hundredths of a MATIC
MinMaticRequired == 10
\* config.maxGasPriceGwei || 60
DefaultMaxGasGwei == 60
\* config.telegramProfitThresholdUsd?.toString() || '10'
DefaultProfitThreshold == 10
\* if (ageMs > 30000), milliseconds
MaxAgeMs == 30000
\* config?.minNetProfitPercent?.toString() || '0.15', in hundredths of a percent
DefaultMinNetProfit == 15

(***************************************************************************)
(* Input domains.                                                          *)
(***************************************************************************)
NoKey == ""
\* "cfgBadKey" is a string ethers.Wallet rejects
ConfigKeys == {NoKey, "cfgKey", "cfgBadKey"}
EnvKeys == {NoKey, "envKey"}
ValidKey(k) == k \in {"cfgKey", "envKey"}

BotConfigs ==
    [enableRealTrading : BOOLEAN,
     privateKey : ConfigKeys,
     maxGasPriceGwei : {None, Some(50)},
     telegramProfitThresholdUsd : {None, Some(20)},
     minNetProfitPercent : {None, Some(20)}]

Opportunities ==
    [estimatedProfitUsd : {5, 10, 25},
     estimatedGasCostUsd : {2},
     flashLoanAmount : {10000},
     timestamp : {9999, 10000},
     netProfitPercent : {10, 15}]

\* the opportunities and the clock readings validateOpportunity is run on
ValidatorOpportunities ==
    [estimatedProfitUsd : {25},
     estimatedGasCostUsd : {2},
     flashLoanAmount : {10000},
     timestamp : {9999, 10000, 10001},
     netProfitPercent : {10, 15, 20}]
Clock == {40000, 40001}

Balances == {0, 5, MinMaticRequired, MaxBalance}
GasPrices == {30, 55, DefaultMaxGasGwei, MaxGasGwei}
\* toAmount values a built swap leg may carry
QuoteOutputs == {7000, 9900}

(***************************************************************************)
(* Error messages (error.message).                                         *)
(***************************************************************************)
ErrConfigNotFound == "Bot configuration not found"
ErrTradingDisabled == "Real trading is disabled in configuration"
ErrKeyMissing == "Private key not configured for real trading"
ErrInsufficientBalance == "Insufficient MATIC balance"
ErrGasTooHigh == "Gas price too high"
ErrNotAFunction == "dexAggregator.buildSwapTransaction is not a function"
\* the message of the error a throwing collaborator raises
CollabError(op) == op \o " failed"

(***************************************************************************)
(* The conditions the pipeline branches on.                                *)
(***************************************************************************)
\* the mode gate with the flag's sense inverted
RealTradingDisabled_Inverted(sim, cfg) == ~sim /\ cfg.enableRealTrading

\* if (!isSimulation && !config.enableRealTrading)
RealTradingDisabled(sim, cfg) == ~sim /\ ~cfg.enableRealTrading

\* const privateKey = config.privateKey || process.env.PRIVATE_KEY
ResolveKey(cfg, env) == IF cfg.privateKey # NoKey THEN cfg.privateKey ELSE env

\* the credential check applied in simulation too
KeyMissing_AnyMode(sim, key) == key = NoKey

\* the credential check never tripping
KeyMissing_Never(sim, key) == FALSE

\* if (!isSimulation && !privateKey)
KeyMissing(sim, key) == ~sim /\ key = NoKey

\* mutant of ChecksBalance: the balance is queried in simulation too
ChecksBalance_AnyMode(sim, key) == key # NoKey

\* if (!isSimulation && privateKey)
ChecksBalance(sim, key) == ~sim /\ key # NoKey

\* if (currentMatic < minMaticRequired)
BalanceTooLow(b) == b < MinMaticRequired

\* (config.maxGasPriceGwei || 60)
MaxGas(cfg) ==
    IF cfg.maxGasPriceGwei = None \/ Get(cfg.maxGasPriceGwei) = 0
    THEN DefaultMaxGasGwei
    ELSE Get(cfg.maxGasPriceGwei)

\* the ceiling check ignoring the configured maximum
GasTooHigh_DefaultOnly(g, cfg) == g > DefaultMaxGasGwei

\* if (currentGasGwei > (config.maxGasPriceGwei || 60))
GasTooHigh(g, cfg) == g > MaxGas(cfg)

\* parseFloat(config.telegramProfitThresholdUsd?.toString() || '10')
ProfitThreshold(cfg) ==
    IF cfg.telegramProfitThresholdUsd = None
    THEN DefaultProfitThreshold
    ELSE Get(cfg.telegramProfitThresholdUsd)

\* mutant of Notifies: a profit equal to the threshold does not notify
Notifies_Strict(opp, cfg) == opp.estimatedProfitUsd > ProfitThreshold(cfg)

\* if (opportunity.estimatedProfitUsd >= profitThreshold)
Notifies(opp, cfg) == opp.estimatedProfitUsd >= ProfitThreshold(cfg)

(***************************************************************************)
(* The rows the pipeline persists and the results it returns.              *)
(***************************************************************************)
\* the simulation branch's row: amountOut = flashLoanAmount * 1.01
SimRecord(opp) ==
    [txHash |-> "0xMOCK", status |-> "success",
     amountIn |-> opp.flashLoanAmount,
     amountOut |-> (opp.flashLoanAmount * 101) \div 100,
     profitUsd |-> opp.estimatedProfitUsd,
     gasCostUsd |-> opp.estimatedGasCostUsd,
     netProfitUsd |-> opp.estimatedProfitUsd - opp.estimatedGasCostUsd]

\* a swap leg as built: `from` is the params.from the caller passed
\* (from: config.privateKey!), toAmount what the builder quoted
BuiltSwap(from, out) == [from |-> from, toAmount |-> out]

\* the real branch's row: amountOut = buySwap.toAmount
PendingRecord(opp, buy) ==
    [txHash |-> "0xREAL", status |-> "pending",
     amountIn |-> opp.flashLoanAmount,
     amountOut |-> buy.toAmount,
     profitUsd |-> opp.estimatedProfitUsd,
     gasCostUsd |-> opp.estimatedGasCostUsd,
     netProfitUsd |-> opp.estimatedProfitUsd - opp.estimatedGasCostUsd]

\* mutant of FailedRecord: the failed row keeps the opportunity's estimates
FailedRecord_KeepsEstimates(opp) ==
    [txHash |-> "0x0", status |-> "failed",
     amountIn |-> opp.flashLoanAmount,
     amountOut |-> 0, profitUsd |-> opp.estimatedProfitUsd,
     gasCostUsd |-> opp.estimatedGasCostUsd,
     netProfitUsd |-> opp.estimatedProfitUsd - opp.estimatedGasCostUsd]

\* the catch block's row
FailedRecord(opp) ==
    [txHash |-> "0x0", status |-> "failed",
     amountIn |-> opp.flashLoanAmount,
     amountOut |-> 0, profitUsd |-> 0, gasCostUsd |-> 0, netProfitUsd |-> 0]

SuccessResult(hash) == [success |-> TRUE, txHash |-> Some(hash), error |-> None]
FailureResult(e) == [success |-> FALSE, txHash |-> None, error |-> Some(e)]

(***************************************************************************)
(* Collaborator calls.                                                     *)
(***************************************************************************)
\* whether the next collaborator call may return (TRUE) or throw (FALSE)
Outcomes == IF throws < MaxThrows THEN BOOLEAN ELSE {TRUE}

\* one awaited collaborator call and how it ended
Call(op, level, step, ok) ==
    /\ events' = Append(events, [op |-> op, level |-> level, step |-> step, ok |-> ok])
    /\ throws' = IF ok THEN throws ELSE throws + 1

Log(level, step, ok) == Call("createActivityLog", level, step, ok)

\* control continues inside the try block
Goto(p) == pc' = p /\ err' = err

\* a throw inside the try block, outside the balance check's own try
Raise(e) == pc' = "catch_log" /\ err' = Some(e)

\* the methods class DexAggregator declares
DexAggregatorMethods ==
    {"getQuote", "getTokenPrices", "executeSwap", "getSupportedTokens",
     "getTokenInfo", "getArbitrageOpportunities"}

\* the state of one invocation at entry
Entry ==
    /\ isSimulation \in BOOLEAN
    /\ opportunity \in Opportunities
    /\ store \in {None} \cup {Some(c) : c \in BotConfigs}
    /\ envKey \in EnvKeys
    /\ now = 40000
    /\ valid = None
    /\ apiKey = None
    /\ last = None
    /\ previous = None
    /\ active = 1
    /\ other = None
    /\ pc = "start"
    /\ config = None
    /\ privateKey = None
    /\ maticBalance = None
    /\ gasGwei = None
    /\ buySwap = None
    /\ sellSwap = None
    /\ err = None
    /\ events = <<>>
    /\ txRecords = <<>>
    /\ result = None
    /\ thrown = None
    /\ throws = 0

Init == Entry /\ aggregator = DexAggregatorMethods

\* mutant of LogStart: step 1 rejects an opportunity that is older than the
\* time window or below the default minimum profit
LogStart_Validating ==
    /\ pc = "start"
    /\ \E ok \in Outcomes :
        /\ Log("info", "1_validation", ok)
        /\ IF ~ok THEN Raise(CollabError("createActivityLog"))
           ELSE IF \/ now - opportunity.timestamp > MaxAgeMs
                   \/ opportunity.netProfitPercent < DefaultMinNetProfit
           THEN Raise("Opportunity is no longer valid")
           ELSE Goto("get_config")
    /\ UNCHANGED <<inputs, outside, config, privateKey, maticBalance, gasGwei, buySwap,
                   sellSwap, txRecords, result, thrown>>

(***************************************************************************)
(* Steps 1-4: audit start, configuration, mode gate, credential.           *)
(***************************************************************************)
\* Step 1: the start audit log
LogStart ==
    /\ pc = "start"
    /\ \E ok \in Outcomes :
        /\ Log("info", "1_validation", ok)
        /\ IF ok THEN Goto("get_config")
                 ELSE Raise(CollabError("createActivityLog"))
    /\ UNCHANGED <<inputs, outside, config, privateKey, maticBalance, gasGwei, buySwap,
                   sellSwap, txRecords, result, thrown>>

\* Steps 2-4: getBotConfig, then the mode gate and the credential resolution
GetBotConfig ==
    /\ pc = "get_config"
    /\ \E ok \in Outcomes :
        /\ Call("getBotConfig", "", "", ok)
        /\ IF ~ok
           THEN /\ Raise(CollabError("getBotConfig"))
                /\ UNCHANGED <<config, privateKey>>
           ELSE /\ config' = store
                /\ IF store = None
                   THEN Raise(ErrConfigNotFound) /\ UNCHANGED privateKey
                   ELSE IF RealTradingDisabled(isSimulation, Get(store))
                   THEN Raise(ErrTradingDisabled) /\ UNCHANGED privateKey
                   ELSE /\ privateKey' = Some(ResolveKey(Get(store), envKey))
                        /\ IF KeyMissing(isSimulation, ResolveKey(Get(store), envKey))
                           THEN Goto("log_key_missing")
                           ELSE Goto("log_key")
    /\ UNCHANGED <<inputs, outside, maticBalance, gasGwei, buySwap, sellSwap, txRecords,
                   result, thrown>>

\* Step 4, no credential in real mode: the remediation hint, then the throw
LogKeyMissing ==
    /\ pc = "log_key_missing"
    /\ \E ok \in Outcomes :
        /\ Log("error", "2_validation_failed", ok)
        /\ IF ok THEN Raise(ErrKeyMissing)
                 ELSE Raise(CollabError("createActivityLog"))
    /\ UNCHANGED <<inputs, outside, config, privateKey, maticBalance, gasGwei, buySwap,
                   sellSwap, txRecords, result, thrown>>

\* Step 4, credential accepted; then the balance check's try block is
\* entered in real mode, where new ethers.Wallet(privateKey) may throw
LogKey ==
    /\ pc = "log_key"
    /\ \E ok \in Outcomes :
        /\ Log("info", "2_key_validation", ok)
        /\ IF ~ok THEN Raise(CollabError("createActivityLog"))
           ELSE IF ~ChecksBalance(isSimulation, Get(privateKey)) THEN Goto("get_gas")
           ELSE IF ValidKey(Get(privateKey)) THEN Goto("get_balance")
           ELSE Goto("log_balance_warn")
    /\ UNCHANGED <<inputs, outside, config, privateKey, maticBalance, gasGwei, buySwap,
                   sellSwap, txRecords, result, thrown>>

\* mutant of GetNativeBalance: a throw of the query reaches the outer catch
GetNativeBalance_Fatal ==
    /\ pc = "get_balance"
    /\ \E ok \in Outcomes, b \in Balances :
        /\ Call("getNativeBalance", "", "", ok)
        /\ IF ok THEN maticBalance' = Some(b) /\ Goto("log_balance")
                 ELSE UNCHANGED maticBalance /\ Raise(CollabError("getNativeBalance"))
    /\ UNCHANGED <<inputs, outside, config, privateKey, gasGwei, buySwap, sellSwap,
                   txRecords, result, thrown>>

(***************************************************************************)
(* Step 5: the gas-reserve check, inside its own try/catch.                *)
(***************************************************************************)
\* getNativeBalance; a throw is caught by the balance check's own catch
GetNativeBalance ==
    /\ pc = "get_balance"
    /\ \E ok \in Outcomes, b \in Balances :
        /\ Call("getNativeBalance", "", "", ok)
        /\ IF ok THEN maticBalance' = Some(b) /\ Goto("log_balance")
                 ELSE UNCHANGED maticBalance /\ Goto("log_balance_warn")
    /\ UNCHANGED <<inputs, outside, config, privateKey, gasGwei, buySwap, sellSwap,
                   txRecords, result, thrown>>

\* the balance audit log, then the throw on a low balance; both the log's
\* own failure and the insufficient-balance throw are inside the inner try
LogBalance ==
    /\ pc = "log_balance"
    /\ \E ok \in Outcomes :
        /\ Log("info", "3_balance_check", ok)
        /\ IF ok /\ ~BalanceTooLow(Get(maticBalance))
           THEN Goto("get_gas")
           ELSE Goto("log_balance_warn")
    /\ UNCHANGED <<inputs, outside, config, privateKey, maticBalance, gasGwei, buySwap,
                   sellSwap, txRecords, result, thrown>>

\* the inner catch block: a warning, after which the pipeline goes on
LogBalanceWarn ==
    /\ pc = "log_balance_warn"
    /\ \E ok \in Outcomes :
        /\ Log("warning", "3_balance_check_failed", ok)
        /\ IF ok THEN Goto("get_gas")
                 ELSE Raise(CollabError("createActivityLog"))
    /\ UNCHANGED <<inputs, outside, config, privateKey, maticBalance, gasGwei, buySwap,
                   sellSwap, txRecords, result, thrown>>

(***************************************************************************)
(* Step 6: the gas-price ceiling.                                          *)
(***************************************************************************)
GetGasPrice ==
    /\ pc = "get_gas"
    /\ \E ok \in Outcomes, g \in GasPrices :
        /\ Call("getGasPrice", "", "", ok)
        /\ IF ok THEN gasGwei' = Some(g) /\ Goto("log_gas")
                 ELSE UNCHANGED gasGwei /\ Raise(CollabError("getGasPrice"))
    /\ UNCHANGED <<inputs, outside, config, privateKey, maticBalance, buySwap, sellSwap,
                   txRecords, result, thrown>>

LogGas ==
    /\ pc = "log_gas"
    /\ \E ok \in Outcomes :
        /\ Log("info", "4_gas_check", ok)
        /\ IF ~ok THEN Raise(CollabError("createActivityLog"))
           ELSE IF GasTooHigh(Get(gasGwei), Get(config)) THEN Goto("log_gas_high")
           ELSE IF isSimulation THEN Goto("log_sim5")
           ELSE Goto("log_real5")
    /\ UNCHANGED <<inputs, outside, config, privateKey, maticBalance, gasGwei, buySwap,
                   sellSwap, txRecords, result, thrown>>

LogGasHigh ==
    /\ pc = "log_gas_high"
    /\ \E ok \in Outcomes :
        /\ Log("error", "4_gas_too_high", ok)
        /\ IF ok THEN Raise(ErrGasTooHigh)
                 ELSE Raise(CollabError("createActivityLog"))
    /\ UNCHANGED <<inputs, outside, config, privateKey, maticBalance, gasGwei, buySwap,
                   sellSwap, txRecords, result, thrown>>

(***************************************************************************)
(* The simulation branch.                                                  *)
(***************************************************************************)
LogSim5 ==
    /\ pc = "log_sim5"
    /\ \E ok \in Outcomes :
        /\ Log("info", "5_mock_transaction", ok)
        /\ IF ok THEN Goto("log_sim7")
                 ELSE Raise(CollabError("createActivityLog"))
    /\ UNCHANGED <<inputs, outside, config, privateKey, maticBalance, gasGwei, buySwap,
                   sellSwap, txRecords, result, thrown>>

LogSim7 ==
    /\ pc = "log_sim7"
    /\ \E ok \in Outcomes :
        /\ Log("success", "7_completed", ok)
        /\ IF ok THEN Goto("tx_sim")
                 ELSE Raise(CollabError("createActivityLog"))
    /\ UNCHANGED <<inputs, outside, config, privateKey, maticBalance, gasGwei, buySwap,
                   sellSwap, txRecords, result, thrown>>

\* mutant of TxSim: the row is left out when a concurrent invocation has
\* written one for the opportunity already
TxSim_Deduplicating ==
    /\ pc = "tx_sim"
    /\ \E ok \in Outcomes :
        /\ Call("createArbitrageTransaction", "", "success", ok)
        /\ IF ~ok
           THEN /\ Raise(CollabError("createArbitrageTransaction"))
                /\ UNCHANGED <<txRecords, result>>
           ELSE /\ txRecords' = IF other # None /\ Get(other).txRecords # <<>>
                                THEN txRecords
                                ELSE Append(txRecords, SimRecord(opportunity))
                /\ IF Notifies(opportunity, Get(config))
                   THEN Goto("notify_sim") /\ UNCHANGED result
                   ELSE /\ pc' = "returned"
                        /\ err' = err
                        /\ result' = Some(SuccessResult("0xMOCK"))
    /\ UNCHANGED <<inputs, outside, config, privateKey, maticBalance, gasGwei, buySwap,
                   sellSwap, thrown>>

\* the 'success' row, then the notification threshold
TxSim ==
    /\ pc = "tx_sim"
    /\ \E ok \in Outcomes :
        /\ Call("createArbitrageTransaction", "", "success", ok)
        /\ IF ~ok
           THEN /\ Raise(CollabError("createArbitrageTransaction"))
                /\ UNCHANGED <<txRecords, result>>
           ELSE /\ txRecords' = Append(txRecords, SimRecord(opportunity))
                /\ IF Notifies(opportunity, Get(config))
                   THEN Goto("notify_sim") /\ UNCHANGED result
                   ELSE /\ pc' = "returned"
                        /\ err' = err
                        /\ result' = Some(SuccessResult("0xMOCK"))
    /\ UNCHANGED <<inputs, outside, config, privateKey, maticBalance, gasGwei, buySwap,
                   sellSwap, thrown>>

\* mutant of NotifySim: a notification that threw is sent again
NotifySim_Retrying ==
    /\ pc = "notify_sim"
    /\ \E ok \in Outcomes :
        /\ Call("sendTelegramMessage", "", "trade_success", ok)
        /\ IF ok
           THEN /\ pc' = "returned"
                /\ err' = err
                /\ result' = Some(SuccessResult("0xMOCK"))
           ELSE /\ Goto("notify_sim")
                /\ UNCHANGED result
    /\ UNCHANGED <<inputs, outside, config, privateKey, maticBalance, gasGwei, buySwap,
                   sellSwap, txRecords, thrown>>

NotifySim ==
    /\ pc = "notify_sim"
    /\ \E ok \in Outcomes :
        /\ Call("sendTelegramMessage", "", "trade_success", ok)
        /\ IF ok
           THEN /\ pc' = "returned"
                /\ err' = err
                /\ result' = Some(SuccessResult("0xMOCK"))
           ELSE /\ Raise(CollabError("sendTelegramMessage"))
                /\ UNCHANGED result
    /\ UNCHANGED <<inputs, outside, config, privateKey, maticBalance, gasGwei, buySwap,
                   sellSwap, txRecords, thrown>>

(***************************************************************************)
(* The real branch.                                                        *)
(***************************************************************************)
\* the real-execution audit log, then dexAggregator.buildSwapTransaction is
\* looked up on the new DexAggregator: calling a missing method throws
LogReal5 ==
    /\ pc = "log_real5"
    /\ \E ok \in Outcomes :
        /\ Log("warning", "5_real_execution", ok)
        /\ IF ~ok THEN Raise(CollabError("createActivityLog"))
           ELSE IF "buildSwapTransaction" \in aggregator THEN Goto("build_buy")
           ELSE Raise(ErrNotAFunction)
    /\ UNCHANGED <<inputs, outside, config, privateKey, maticBalance, gasGwei, buySwap,
                   sellSwap, txRecords, result, thrown>>

\* Step 10, the buy leg: buildSwapTransaction({src: tokenIn, dst: tokenOut,
\* amount: loanAmount}); it returns a quote or throws
BuildBuySwap ==
    /\ pc = "build_buy"
    /\ \E ok \in Outcomes, out \in QuoteOutputs :
        /\ Call("buildSwapTransaction", "", "buy", ok)
        /\ IF ok THEN /\ buySwap' = Some(BuiltSwap(Get(config).privateKey, out))
                      /\ Goto("build_sell")
                 ELSE UNCHANGED buySwap /\ Raise(CollabError("buildSwapTransaction"))
    /\ UNCHANGED <<inputs, outside, config, privateKey, maticBalance, gasGwei, sellSwap,
                   txRecords, result, thrown>>

\* Step 10, the sell leg: amount is buySwap.toAmount
BuildSellSwap ==
    /\ pc = "build_sell"
    /\ \E ok \in Outcomes, out \in QuoteOutputs :
        /\ Call("buildSwapTransaction", "", "sell", ok)
        /\ IF ok THEN /\ sellSwap' = Some(BuiltSwap(Get(config).privateKey, out))
                      /\ Goto("log_real6")
                 ELSE UNCHANGED sellSwap /\ Raise(CollabError("buildSwapTransaction"))
    /\ UNCHANGED <<inputs, outside, config, privateKey, maticBalance, gasGwei, buySwap,
                   txRecords, result, thrown>>

LogReal6 ==
    /\ pc = "log_real6"
    /\ \E ok \in Outcomes :
        /\ Log("info", "6_swap_preparation", ok)
        /\ IF ok THEN Goto("tx_real")
                 ELSE Raise(CollabError("createActivityLog"))
    /\ UNCHANGED <<inputs, outside, config, privateKey, maticBalance, gasGwei, buySwap,
                   sellSwap, txRecords, result, thrown>>

\* Step 11: the 'pending' row
TxReal ==
    /\ pc = "tx_real"
    /\ \E ok \in Outcomes :
        /\ Call("createArbitrageTransaction", "", "pending", ok)
        /\ IF ok
           THEN /\ txRecords' = Append(txRecords, PendingRecord(opportunity, Get(buySwap)))
                /\ Goto("log_real7")
           ELSE /\ Raise(CollabError("createArbitrageTransaction"))
                /\ UNCHANGED txRecords
    /\ UNCHANGED <<inputs, outside, config, privateKey, maticBalance, gasGwei, buySwap,
                   sellSwap, result, thrown>>

LogReal7 ==
    /\ pc = "log_real7"
    /\ \E ok \in Outcomes :
        /\ Log("success", "7_transaction_sent", ok)
        /\ IF ok THEN Goto("notify_real")
                 ELSE Raise(CollabError("createActivityLog"))
    /\ UNCHANGED <<inputs, outside, config, privateKey, maticBalance, gasGwei, buySwap,
                   sellSwap, txRecords, result, thrown>>

\* the submitted notification, then the successful result
NotifyReal ==
    /\ pc = "notify_real"
    /\ \E ok \in Outcomes :
        /\ Call("sendTelegramMessage", "", "trade_pending", ok)
        /\ IF ok
           THEN /\ pc' = "returned"
                /\ err' = err
                /\ result' = Some(SuccessResult("0xREAL"))
           ELSE /\ Raise(CollabError("sendTelegramMessage"))
                /\ UNCHANGED result
    /\ UNCHANGED <<inputs, outside, config, privateKey, maticBalance, gasGwei, buySwap,
                   sellSwap, txRecords, thrown>>

(***************************************************************************)
(* The failure path: the outer catch block.                                *)
(***************************************************************************)
\* the error audit log; its own throw leaves the function
CatchLog ==
    /\ pc = "catch_log"
    /\ \E ok \in Outcomes :
        /\ Log("error", "trade_failed", ok)
        /\ IF ok THEN pc' = "catch_tx" /\ UNCHANGED thrown
                 ELSE /\ pc' = "rejected"
                      /\ thrown' = Some(CollabError("createActivityLog"))
    /\ UNCHANGED <<inputs, outside, config, privateKey, maticBalance, gasGwei, buySwap,
                   sellSwap, err, txRecords, result>>

\* the 'failed' row, then the failed result; its own throw leaves the function
CatchTx ==
    /\ pc = "catch_tx"
    /\ \E ok \in Outcomes :
        /\ Call("createArbitrageTransaction", "", "failed", ok)
        /\ IF ok
           THEN /\ txRecords' = Append(txRecords, FailedRecord(opportunity))
                /\ result' = Some(FailureResult(Get(err)))
                /\ pc' = "returned"
                /\ UNCHANGED thrown
           ELSE /\ pc' = "rejected"
                /\ thrown' = Some(CollabError("createArbitrageTransaction"))
                /\ UNCHANGED <<txRecords, result>>
    /\ UNCHANGED <<inputs, outside, config, privateKey, maticBalance, gasGwei, buySwap,
                   sellSwap, err>>

Next ==
    \/ LogStart
    \/ GetBotConfig
    \/ LogKeyMissing
    \/ LogKey
    \/ GetNativeBalance
    \/ LogBalance
    \/ LogBalanceWarn
    \/ GetGasPrice
    \/ LogGas
    \/ LogGasHigh
    \/ LogSim5
    \/ LogSim7
    \/ TxSim
    \/ NotifySim
    \/ LogReal5
    \/ CatchLog
    \/ CatchTx

Spec == Init /\ [][Next]_vars

(***************************************************************************)
(* The pipeline run against an aggregator that does provide the quote      *)
(* builder the real branch calls (buildSwapTransaction, as section 4.1,    *)
(* step 7 of the design describes it): the rest of the real branch, which  *)
(* the code as it stands never reaches, becomes reachable.                 *)
(***************************************************************************)
InitBuilder == Entry /\ aggregator = DexAggregatorMethods \cup {"buildSwapTransaction"}

NextBuilder ==
    \/ Next
    \/ BuildBuySwap
    \/ BuildSellSwap
    \/ LogReal6
    \/ TxReal
    \/ LogReal7
    \/ NotifyReal

SpecBuilder == InitBuilder /\ [][NextBuilder]_vars

(***************************************************************************)
(* Two invocations of executeArbitrageTrade for the same user and the same *)
(* opportunity, interleaved at their awaits.  The variables of the         *)
(* pipeline describe the invocation that is running; `other` holds the     *)
(* arguments and locals of the suspended one, and Switch resumes the       *)
(* suspended one in place of the running one.  The class has no fields and *)
(* the function no state outside its locals, so nothing but the read-only  *)
(* arguments and the collaborators is common to the two.  txRecords are    *)
(* the rows the invocation itself wrote.                                   *)
(***************************************************************************)

\* the arguments and locals of the running invocation
Locals ==
    [isSimulation |-> isSimulation, pc |-> pc, config |-> config,
     privateKey |-> privateKey, maticBalance |-> maticBalance,
     gasGwei |-> gasGwei, buySwap |-> buySwap, sellSwap |-> sellSwap,
     err |-> err, events |-> events, txRecords |-> txRecords,
     result |-> result, thrown |-> thrown, throws |-> throws]

\* the arguments and locals of an invocation at entry
EntryLocals(sim) ==
    [isSimulation |-> sim, pc |-> "start", config |-> None,
     privateKey |-> None, maticBalance |-> None,
     gasGwei |-> None, buySwap |-> None, sellSwap |-> None,
     err |-> None, events |-> <<>>, txRecords |-> <<>>,
     result |-> None, thrown |-> None, throws |-> 0]

\* the stored configurations and the opportunity of the two invocations
ConcurrentConfigs ==
    [enableRealTrading : {TRUE},
     privateKey : {NoKey, "cfgKey"},
     maxGasPriceGwei : {None},
     telegramProfitThresholdUsd : {None},
     minNetProfitPercent : {None}]

ConcurrentOpportunities ==
    [estimatedProfitUsd : {25},
     estimatedGasCostUsd : {2},
     flashLoanAmount : {10000},
     timestamp : {10000},
     netProfitPercent : {15}]

\* both invocations at entry, the first one running
InitConcurrent ==
    /\ opportunity \in ConcurrentOpportunities
    /\ store \in {Some(c) : c \in ConcurrentConfigs}
    /\ envKey = NoKey
    /\ aggregator = DexAggregatorMethods
    /\ now = 40000
    /\ valid = None
    /\ apiKey = None
    /\ last = None
    /\ previous = None
    /\ active = 1
    /\ isSimulation \in BOOLEAN
    /\ pc = "start"
    /\ config = None
    /\ privateKey = None
    /\ maticBalance = None
    /\ gasGwei = None
    /\ buySwap = None
    /\ sellSwap = None
    /\ err = None
    /\ events = <<>>
    /\ txRecords = <<>>
    /\ result = None
    /\ thrown = None
    /\ throws = 0
    /\ \E sim \in BOOLEAN : other = Some(EntryLocals(sim))

\* the event loop resumes the suspended invocation at its await
Switch ==
    /\ other # None
    /\ Get(other).pc \notin {"returned", "rejected"}
    /\ other' = Some(Locals)
    /\ active' = 3 - active
    /\ isSimulation' = Get(other).isSimulation
    /\ pc' = Get(other).pc
    /\ config' = Get(other).config
    /\ privateKey' = Get(other).privateKey
    /\ maticBalance' = Get(other).maticBalance
    /\ gasGwei' = Get(other).gasGwei
    /\ buySwap' = Get(other).buySwap
    /\ sellSwap' = Get(other).sellSwap
    /\ err' = Get(other).err
    /\ events' = Get(other).events
    /\ txRecords' = Get(other).txRecords
    /\ result' = Get(other).result
    /\ thrown' = Get(other).thrown
    /\ throws' = Get(other).throws
    /\ UNCHANGED <<opportunity, store, envKey, aggregator, now, valid, apiKey,
                   last, previous>>

NextConcurrent == Next \/ Switch

\* every awaited collaborator call ends, by returning or by throwing, and
\* the event loop resumes a suspended invocation whose call has ended
SpecConcurrent ==
    /\ InitConcurrent
    /\ [][NextConcurrent]_vars
    /\ WF_vars(Next)
    /\ WF_vars(Switch)

(***************************************************************************)
(* TradeExecutor.validateOpportunity: one call, from "validate" to         *)
(* "validated" (a boolean was returned) or "rejected" (an error left the   *)
(* function).  Its one await is getBotConfig; the clock is read after it.  *)
(***************************************************************************)

\* mutant of TooOld: an opportunity exactly 30000 ms old is rejected
TooOld_Inclusive(opp, t) == t - opp.timestamp >= MaxAgeMs

\* const ageMs = Date.now() - opportunity.timestamp; if (ageMs > 30000)
TooOld(opp, t) == t - opp.timestamp > MaxAgeMs

\* parseFloat(config?.minNetProfitPercent?.toString() || '0.15')
MinNetProfit(cfg) ==
    IF cfg = None THEN DefaultMinNetProfit
    ELSE IF Get(cfg).minNetProfitPercent = None THEN DefaultMinNetProfit
    ELSE Get(Get(cfg).minNetProfitPercent)

\* if (opportunity.netProfitPercent < minimum)
BelowMinimum(opp, cfg) == opp.netProfitPercent < MinNetProfit(cfg)

\* the try block after getBotConfig returned cfg
Accepts(opp, cfg, t) ==
    IF TooOld(opp, t) THEN FALSE
    ELSE IF BelowMinimum(opp, cfg) THEN FALSE
    ELSE TRUE

\* mutant of ValidateCaught: the error is thrown on to the caller
ValidateCaught_Rethrows(e) ==
    /\ valid' = valid
    /\ pc' = "rejected"
    /\ thrown' = Some(e)

\* the catch block: the error is printed and false is returned
ValidateCaught(e) ==
    /\ valid' = Some(FALSE)
    /\ pc' = "validated"
    /\ UNCHANGED thrown

\* the state of one validateOpportunity call at entry
ValidateEntry ==
    /\ opportunity \in ValidatorOpportunities
    /\ store \in {None} \cup {Some(c) : c \in BotConfigs}
    /\ now \in Clock
    /\ valid = None
    /\ apiKey = None
    /\ last = None
    /\ previous = None
    /\ active = 1
    /\ other = None
    /\ pc = "validate"
    /\ isSimulation = TRUE
    /\ envKey = NoKey
    /\ aggregator = DexAggregatorMethods
    /\ config = None
    /\ privateKey = None
    /\ maticBalance = None
    /\ gasGwei = None
    /\ buySwap = None
    /\ sellSwap = None
    /\ err = None
    /\ events = <<>>
    /\ txRecords = <<>>
    /\ result = None
    /\ thrown = None
    /\ throws = 0

ValidateOpportunity ==
    /\ pc = "validate"
    /\ \E ok \in Outcomes :
        /\ Call("getBotConfig", "", "", ok)
        /\ IF ok
           THEN /\ config' = store
                /\ valid' = Some(Accepts(opportunity, store, now))
                /\ pc' = "validated"
                /\ UNCHANGED thrown
           ELSE /\ ValidateCaught(CollabError("getBotConfig"))
                /\ UNCHANGED config
    /\ UNCHANGED <<inputs, privateKey, maticBalance, gasGwei, buySwap, sellSwap,
                   err, txRecords, result, apiKey, last, previous, active, other>>

InitValidate == ValidateEntry

NextValidate == ValidateOpportunity

SpecValidate == InitValidate /\ [][NextValidate]_vars

(***************************************************************************)
(* DexAggregator (the quote source).  getQuote and getTokenPrices have one *)
(* await each, the HTTP request, made only when an API key is configured;  *)
(* a call is one action.  The two latest completed calls are kept.         *)
(*                                                                         *)
(* Token amounts passed to and returned by getQuote are in units of        *)
(* 0.00000001 (toFixed(8) is exact in them); USD prices are cents and 24h  *)
(* price changes hundredths of a percent.                                  *)
(***************************************************************************)

\* export const TOKENS
TOKENS ==
    [MATIC  |-> "0xEeeeeEeeeEeEeeEeEeEeeEEEeeeeEeeeeeeeEEeE",
     WMATIC |-> "0x0d500B1d8E8eF31E21C99d1Db9A6444d3ADf1270",
     USDC   |-> "0x2791Bca1f2de4661ED88A30C99A7a9449Aa84174",
     USDT   |-> "0xc2132D05D31c914a87C6611C10748AEb04B58e8F",
     WETH   |-> "0x7ceB23fD6bC0adD59E62ac25578270cFf1b9f619",
     DAI    |-> "0x8f3Cf7ad23Cd3CaDbD9735AFf958023239c6A063",
     WBTC   |-> "0x1BFD67037B42Cf73acF2047067bd4F2C47D9BfD6"]

\* String.prototype.toLowerCase on the addresses of the model: the TOKENS
\* addresses are mixed-case, every other address is lower-case already
ToLowerCase(a) ==
    CASE a = TOKENS.MATIC  -> "0xeeeeeeeeeeeeeeeeeeeeeeeeeeeeeeeeeeeeeeee"
      [] a = TOKENS.WMATIC -> "0x0d500b1d8e8ef31e21c99d1db9a6444d3adf1270"
      [] a = TOKENS.USDC   -> "0x2791bca1f2de4661ed88a30c99a7a9449aa84174"
      [] a = TOKENS.USDT   -> "0xc2132d05d31c914a87c6611c10748aeb04b58e8f"
      [] a = TOKENS.WETH   -> "0x7ceb23fd6bc0add59e62ac25578270cff1b9f619"
      [] a = TOKENS.DAI    -> "0x8f3cf7ad23cd3cadbd9735aff958023239c6a063"
      [] a = TOKENS.WBTC   -> "0x1bfd67037b42cf73acf2047067bd4f2c47d9bfd6"
      [] OTHER -> a

\* an address no registry entry has
UnknownAddress == "0x000000000000000000000000000000000000dead"

\* the (src, dst) pairs and the amounts getQuote is called with: the five
\* pairs of the demo-mode table, their two untabled reverses and directions,
\* a lower-case spelling of a tabled address, an unknown token
Pairs ==
    {<<TOKENS.MATIC, TOKENS.USDC>>, <<TOKENS.USDC, TOKENS.MATIC>>,
     <<TOKENS.WMATIC, TOKENS.USDC>>, <<TOKENS.USDC, TOKENS.WMATIC>>,
     <<TOKENS.USDC, TOKENS.WETH>>, <<TOKENS.WETH, TOKENS.USDC>>,
     <<TOKENS.MATIC, TOKENS.WETH>>,
     <<ToLowerCase(TOKENS.MATIC), TOKENS.USDC>>,
     <<UnknownAddress, TOKENS.USDC>>}
Amounts == {700, 700000}
\* the address lists getTokenPrices is called with
AddressLists ==
    {<<>>, <<ToLowerCase(TOKENS.USDC)>>, <<TOKENS.WETH, UnknownAddress>>}

\* getSupportedTokens()
SupportedTokens ==
    <<[address |-> TOKENS.MATIC, symbol |-> "MATIC", name |-> "Polygon", decimals |-> 18],
      [address |-> TOKENS.WMATIC, symbol |-> "WMATIC", name |-> "Wrapped MATIC", decimals |-> 18],
      [address |-> TOKENS.USDC, symbol |-> "USDC", name |-> "USD Coin", decimals |-> 6],
      [address |-> TOKENS.USDT, symbol |-> "USDT", name |-> "Tether USD", decimals |-> 6],
      [address |-> TOKENS.WETH, symbol |-> "WETH", name |-> "Wrapped Ether", decimals |-> 18],
      [address |-> TOKENS.DAI, symbol |-> "DAI", name |-> "Dai Stablecoin", decimals |-> 18],
      [address |-> TOKENS.WBTC, symbol |-> "WBTC", name |-> "Wrapped BTC", decimals |-> 8]>>

\* getTokenInfo(address): the first registry entry with the same address,
\* compared in lower case, or the 'UNKNOWN' entry
GetTokenInfo(address) ==
    LET hits == {i \in DOMAIN SupportedTokens :
                    ToLowerCase(SupportedTokens[i].address) = ToLowerCase(address)}
    IN  IF hits = {}
        THEN [address |-> address, symbol |-> "UNKNOWN", name |-> "Unknown Token",
              decimals |-> 18]
        ELSE SupportedTokens[CHOOSE i \in hits : \A j \in hits : i <= j]

\* n/d rounded to the nearest integer, n >= 0 and d even
Round(n, d) == (n + d \div 2) \div d

\* (n/d).toFixed(6) and (n/d).toFixed(8) of an amount n/d
ToFixed6(n, d) == 100 * Round(n, 100 * d)
ToFixed8(n, d) == Round(n, d)

\* mutant of DemoToAmount: every pair is quoted 1:1
DemoToAmount_Flat(src, dst, amount) == amount

\* the demo-mode table: estimatedToAmount for (src, dst, amount)
DemoToAmount(src, dst, amount) ==
    IF src = TOKENS.MATIC /\ dst = TOKENS.USDC THEN ToFixed6(7 * amount, 10)
    ELSE IF src = TOKENS.USDC /\ dst = TOKENS.MATIC THEN ToFixed6(10 * amount, 7)
    ELSE IF src = TOKENS.WMATIC /\ dst = TOKENS.USDC THEN ToFixed6(7 * amount, 10)
    ELSE IF src = TOKENS.USDC /\ dst = TOKENS.WETH THEN ToFixed8(amount, 2500)
    ELSE IF src = TOKENS.WETH /\ dst = TOKENS.USDC THEN ToFixed6(2500 * amount, 1)
    ELSE amount

\* dex: Math.random() > 0.5 ? '1inch' : 'QuickSwap'
DemoDexes == {"1inch", "QuickSwap"}

\* the SwapQuote demo mode returns; it has no protocols property
DemoQuote(p, d) ==
    [fromToken |-> GetTokenInfo(p.src),
     toToken |-> GetTokenInfo(p.dst),
     fromAmount |-> p.amount,
     toAmount |-> DemoToAmount(p.src, p.dst, p.amount),
     estimatedGas |-> 250000,
     protocols |-> None,
     dex |-> d]

\* response.data of the quote endpoint
LiveQuoteData ==
    {[toAmount |-> Some(123456), toTokenAmount |-> None,
      estimatedGas |-> Some(180000), protocols |-> Some("routes")],
     [toAmount |-> None, toTokenAmount |-> Some(654321),
      estimatedGas |-> None, protocols |-> None]}

\* the SwapQuote built from the live response
LiveQuote(p, data) ==
    [fromToken |-> GetTokenInfo(p.src),
     toToken |-> GetTokenInfo(p.dst),
     fromAmount |-> p.amount,
     toAmount |-> IF data.toAmount # None THEN Get(data.toAmount)
                  ELSE Get(data.toTokenAmount),
     estimatedGas |-> IF data.estimatedGas # None THEN Get(data.estimatedGas)
                      ELSE 250000,
     protocols |-> data.protocols,
     dex |-> "1inch"]

\* the values Math.random() contributes after toFixed(2): the two ends
Rand == {0, 1}

\* demo mode's priceUsd for an address, r the random draw
DemoPriceUsd(address, r) ==
    LET a == ToLowerCase(address)
    IN  IF a \in {ToLowerCase(TOKENS.MATIC), ToLowerCase(TOKENS.WMATIC)}
        THEN 70 + 5 * r
        ELSE IF a \in {ToLowerCase(TOKENS.USDC), ToLowerCase(TOKENS.USDT),
                       ToLowerCase(TOKENS.DAI)}
        THEN 100 + r
        ELSE IF a = ToLowerCase(TOKENS.WETH) THEN 250000 + 10000 * r
        ELSE IF a = ToLowerCase(TOKENS.WBTC) THEN 4500000 + 100000 * r
        ELSE 1000 * r

\* demo mode's priceChange24h for an address, r the random draw
DemoPriceChange(address, r) ==
    LET a == ToLowerCase(address)
    IN  IF a \in {ToLowerCase(TOKENS.MATIC), ToLowerCase(TOKENS.WMATIC)}
        THEN 500 * r - 250
        ELSE IF a \in {ToLowerCase(TOKENS.USDC), ToLowerCase(TOKENS.USDT),
                       ToLowerCase(TOKENS.DAI)}
        THEN 100 * r - 50
        ELSE IF a = ToLowerCase(TOKENS.WETH) THEN 600 * r - 300
        ELSE IF a = ToLowerCase(TOKENS.WBTC) THEN 400 * r - 200
        ELSE 1000 * r - 500

\* the TokenPrice list demo mode returns: one entry per requested address
DemoPrices(addresses, draws) ==
    [i \in DOMAIN addresses |->
        [address |-> addresses[i],
         symbol |-> GetTokenInfo(addresses[i]).symbol,
         priceUsd |-> DemoPriceUsd(addresses[i], draws[i][1]),
         priceChange24h |-> DemoPriceChange(addresses[i], draws[i][2])]]

\* response.data.tokens || {} of the tokens endpoint, keyed by lower-case
\* address
LiveTokensData ==
    {<<>>,
     ToLowerCase(TOKENS.WETH) :> [price |-> Some(251234), priceChange24h |-> None]}

\* the TokenPrice list built from the live response: the requested addresses
\* the response knows
LivePrices(addresses, tokensData) ==
    LET known == SelectSeq(addresses, LAMBDA a : ToLowerCase(a) \in DOMAIN tokensData)
    IN  [i \in DOMAIN known |->
            LET tokenData == tokensData[ToLowerCase(known[i])]
            IN  [address |-> known[i],
                 symbol |-> GetTokenInfo(known[i]).symbol,
                 priceUsd |-> IF tokenData.price # None
                              THEN Get(tokenData.price) ELSE 0,
                 priceChange24h |-> IF tokenData.priceChange24h # None
                                    THEN Get(tokenData.priceChange24h) ELSE 0]]

\* a call returns value; request tells what became of its HTTP request
\* ("none": not made, "ok", "failed") and live whether value is built from
\* the response
Return(method, params, request, live, value) ==
    /\ previous' = last
    /\ last' = Some([method |-> method, params |-> params, request |-> request,
                     live |-> live, value |-> value])
    /\ pc' = "idle"
    /\ UNCHANGED thrown

\* demo mode of getQuote
QuoteDemoMode(p, request) ==
    \E d \in DemoDexes : Return("getQuote", p, request, FALSE, DemoQuote(p, d))

\* demo mode of getTokenPrices
PricesDemoMode(addresses, request) ==
    \E draws \in [DOMAIN addresses -> Rand \X Rand] :
        Return("getTokenPrices", addresses, request, FALSE,
               DemoPrices(addresses, draws))

\* mutant of QuoteCaught: the request's error is thrown on to the caller
QuoteCaught_Rethrows(p) ==
    /\ pc' = "rejected"
    /\ thrown' = Some("Request failed")
    /\ UNCHANGED <<last, previous>>

\* getQuote's catch block: the error is printed, demo mode follows
QuoteCaught(p) == QuoteDemoMode(p, "failed")

\* getTokenPrices' catch block: the error is printed, demo mode follows
PricesCaught(addresses) == PricesDemoMode(addresses, "failed")

\* a DexAggregator instance after construction, no call made yet
QuoteEntry ==
    /\ apiKey \in {None, Some("key")}
    /\ last = None
    /\ previous = None
    /\ active = 1
    /\ other = None
    /\ pc = "idle"
    /\ isSimulation = TRUE
    /\ opportunity = None
    /\ store = None
    /\ envKey = NoKey
    /\ aggregator = DexAggregatorMethods
    /\ now = 40000
    /\ valid = None
    /\ config = None
    /\ privateKey = None
    /\ maticBalance = None
    /\ gasGwei = None
    /\ buySwap = None
    /\ sellSwap = None
    /\ err = None
    /\ events = <<>>
    /\ txRecords = <<>>
    /\ result = None
    /\ thrown = None
    /\ throws = 0

GetQuote ==
    /\ pc = "idle"
    /\ \E pair \in Pairs, amount \in Amounts :
        LET p == [src |-> pair[1], dst |-> pair[2], amount |-> amount]
        IN  IF apiKey = None
            THEN QuoteDemoMode(p, "none")
            ELSE \/ \E data \in LiveQuoteData :
                      Return("getQuote", p, "ok", TRUE, LiveQuote(p, data))
                 \/ QuoteCaught(p)
    /\ UNCHANGED <<inputs, valid, apiKey, config, privateKey, maticBalance, gasGwei,
                   buySwap, sellSwap, err, events, txRecords, result, throws,
                   active, other>>

\* a response none of whose tokens was asked for is followed by demo mode
GetTokenPrices ==
    /\ pc = "idle"
    /\ \E addresses \in AddressLists :
        IF apiKey = None
        THEN PricesDemoMode(addresses, "none")
        ELSE \/ \E tokensData \in LiveTokensData :
                  IF Len(LivePrices(addresses, tokensData)) > 0
                  THEN Return("getTokenPrices", addresses, "ok", TRUE,
                              LivePrices(addresses, tokensData))
                  ELSE PricesDemoMode(addresses, "ok")
             \/ PricesCaught(addresses)
    /\ UNCHANGED <<inputs, valid, apiKey, config, privateKey, maticBalance, gasGwei,
                   buySwap, sellSwap, err, events, txRecords, result, throws,
                   active, other>>

InitQuote == QuoteEntry

NextQuote == GetQuote \/ GetTokenPrices

SpecQuote == InitQuote /\ [][NextQuote]_vars

(***************************************************************************)
(* Observations on a state.                                                *)
(***************************************************************************)
\* the invocation is over
Terminal == pc \in {"returned", "rejected"}

\* collaborator op has been called (whether it returned or threw)
Made(op) == \E i \in DOMAIN events : events[i].op = op

\* the audit log write of this step was made and returned
LogOk(step) ==
    \E i \in DOMAIN events :
        events[i].op = "createActivityLog" /\ events[i].step = step /\ events[i].ok

\* no credential in the stored configuration and none in the environment
NoCredential == store # None /\ Get(store).privateKey = NoKey /\ envKey = NoKey

\* the gas price returned is strictly above the configured maximum, 60 when unset
AboveCeiling ==
    /\ gasGwei # None
    /\ store # None
    /\ Get(gasGwei) > (IF Get(store).maxGasPriceGwei = None
                        THEN DefaultMaxGasGwei
                        ELSE Get(Get(store).maxGasPriceGwei))

\* the completed DexAggregator calls that are kept
Completed == {Get(c) : c \in {last, previous} \ {None}}

\* the completed getQuote calls that are kept
CompletedQuotes == {c \in Completed : c.method = "getQuote"}

\* the balance query failed: getNativeBalance threw, or the credential is
\* one new ethers.Wallet rejects and the balance check was entered
BalanceQueryFailed ==
    \/ \E i \in DOMAIN events : events[i].op = "getNativeBalance" /\ ~events[i].ok
    \/ /\ ~isSimulation
       /\ privateKey = Some("cfgBadKey")
       /\ LogOk("2_key_validation")

\* the warning of the balance check's catch block was written
WarningWritten ==
    \E i \in DOMAIN events :
        /\ events[i].level = "warning"
        /\ events[i].step = "3_balance_check_failed"
        /\ events[i].ok

\* the arguments and locals of invocation i of two
Inv(i) == IF active = i THEN Locals ELSE Get(other)

\* invocation i of two is over
Settled(i) == Inv(i).pc \in {"returned", "rejected"}

\* invocation i of two is a simulation that returned success
SimSucceeded(i) ==
    /\ Inv(i).isSimulation
    /\ Inv(i).pc = "returned"
    /\ Get(Inv(i).result).success

\* what two interleaved invocations have in common with two lone ones
IndependentOutcomes ==
    /\ \A i \in {1, 2} :
          (/\ Inv(i).isSimulation
           /\ Inv(i).throws = 0
           /\ Inv(i).pc = "returned"
           /\ Get(Inv(i).gasGwei) <= DefaultMaxGasGwei) =>
              /\ Inv(i).result = Some(SuccessResult("0xMOCK"))
              /\ Inv(i).txRecords = <<SimRecord(opportunity)>>
    /\ (SimSucceeded(1) /\ SimSucceeded(2)) =>
          /\ Len(Inv(1).txRecords) + Len(Inv(2).txRecords) = 2
          /\ Inv(1).txRecords[1].status = "success"
          /\ Inv(2).txRecords[1].status = "success"
    /\ (/\ Inv(1).isSimulation = Inv(2).isSimulation
        /\ Inv(1).events = Inv(2).events
        /\ Inv(1).config = Inv(2).config
        /\ Inv(1).maticBalance = Inv(2).maticBalance
        /\ Inv(1).gasGwei = Inv(2).gasGwei) => Inv(1) = Inv(2)

\* every row written so far has status 'failed'
OnlyFailedRows == \A i \in DOMAIN txRecords : txRecords[i].status = "failed"

\* the points of the failure path and after it
FailurePath == {"catch_log", "catch_tx", "returned", "rejected"}

(***************************************************************************)
(* C1: executeArbitrageTrade never throws outward: whatever the            *)
(* collaborators do, the invocation ends by returning a result, and a      *)
(* result returned after a failure has success=false and a non-empty       *)
(* error string.                                                           *)
(* Violated: the catch block awaits createActivityLog and                  *)
(* createArbitrageTransaction unguarded, so their throw leaves the         *)
(* function.                                                               *)
(***************************************************************************)
C1_NeverThrowsOutward ==
    /\ pc # "rejected"
    /\ thrown = None
    /\ (pc = "returned" /\ err # None) =>
          /\ ~Get(result).success
          /\ Get(result).error # None
          /\ Get(Get(result).error) # ""

(***************************************************************************)
(* C2: an invocation that returns has written exactly one transaction      *)
(* record, whose status matches the result: 'failed' iff success=false,    *)
(* 'success' for a successful simulation, 'pending' for a successful real  *)
(* run.                                                                    *)
(* Violated: when sendTelegramMessage throws after the 'success' row was   *)
(* persisted, the catch block adds a 'failed' row and returns              *)
(* success=false.                                                          *)
(***************************************************************************)
C2_OneMatchingRecord ==
    pc = "returned" =>
        /\ Len(txRecords) = 1
        /\ (txRecords[1].status = "failed") <=> ~Get(result).success
        /\ Get(result).success =>
              txRecords[1].status = (IF isSimulation THEN "success" ELSE "pending")

C4_LowBalanceIsFatal ==
    (maticBalance # None /\ Get(maticBalance) < MinMaticRequired /\ throws = 0) =>
        /\ ~Made("getGasPrice")
        /\ ~Made("buildSwapTransaction")
        /\ pc \in {"log_balance", "log_balance_warn"} \cup FailurePath
        /\ pc = "returned" =>
              /\ Get(result) = FailureResult(ErrInsufficientBalance)
              /\ txRecords = <<FailedRecord(opportunity)>>

(***************************************************************************)
(* C5, as the specification states it: real mode with no credential in     *)
(* the stored configuration or the environment always fails with the       *)
(* credential-missing error.  Stated for the runs that return and in which *)
(* no collaborator call throws.                                            *)
(* Violated: the mode gate comes first, so with real trading disabled the  *)
(* error is the trading-disabled one.                                      *)
(***************************************************************************)
C5_AlwaysCredentialError ==
    (~isSimulation /\ NoCredential /\ throws = 0 /\ pc = "returned") =>
        Get(result) = FailureResult(ErrKeyMissing)

(***************************************************************************)
(* C5, as the code implements it: real mode with no resolvable credential  *)
(* never returns success and never calls getNativeBalance or getGasPrice.  *)
(* When the stored configuration enables real trading, the loaded          *)
(* configuration leads to the remediation-hint log, and once that log is   *)
(* written the failure path is entered with the credential-missing error,  *)
(* which any result returned carries together with one 'failed' row.       *)
(* (With real trading disabled the failure is the trading-disabled error.) *)
(***************************************************************************)
C5_NoCredentialFails ==
    (~isSimulation /\ NoCredential) =>
        /\ ~Made("getNativeBalance")
        /\ ~Made("getGasPrice")
        /\ ~Made("buildSwapTransaction")
        /\ result # None => ~Get(result).success
        /\ OnlyFailedRows
        /\ (config # None /\ Get(store).enableRealTrading) =>
              /\ privateKey = Some(NoKey)
              /\ pc \in {"log_key_missing"} \cup FailurePath
              /\ pc # "log_key_missing" =>
                    \E i \in DOMAIN events : events[i].step = "2_validation_failed"
        /\ LogOk("2_validation_failed") =>
              /\ err = Some(ErrKeyMissing)
              /\ pc = "returned" =>
                    /\ Get(result) = FailureResult(ErrKeyMissing)
                    /\ txRecords = <<FailedRecord(opportunity)>>
        /\ (config # None /\ ~Get(store).enableRealTrading) =>
              err = Some(ErrTradingDisabled)

\* C5's case: real mode, trading enabled, no credential, and the
\* credential-missing failure returned
C5_Witness ==
    /\ ~isSimulation
    /\ NoCredential
    /\ Get(store).enableRealTrading
    /\ pc = "returned"
    /\ Get(result) = FailureResult(ErrKeyMissing)
    /\ ~Made("getGasPrice")

(***************************************************************************)
(* C6, as the specification states it: whenever getGasPrice returns a      *)
(* price above the ceiling, the result returned is success=false with the  *)
(* gas-price error, with one 'failed' row and no notification.  Stated for *)
(* the invocations that return.                                            *)
(* Violated: when one of the gas step's own audit-log writes throws, the   *)
(* failure returned carries that write's error instead.                    *)
(***************************************************************************)
C6_GasErrorReturned ==
    (AboveCeiling /\ pc = "returned") =>
        /\ Get(result) = FailureResult(ErrGasTooHigh)
        /\ txRecords = <<FailedRecord(opportunity)>>
        /\ ~Made("sendTelegramMessage")

(***************************************************************************)
(* C6, as the code implements it: in both modes, whenever getGasPrice      *)
(* returns a price strictly above the configured maximum (60 when unset),  *)
(* the pipeline goes no further than the gas step and the failure path:    *)
(* success is never returned, no 'success' or 'pending' row is written and *)
(* no notification is sent; and when the gas step's two audit-log writes   *)
(* succeed, the failure path is entered with the gas-price error, which    *)
(* any result returned carries together with one 'failed' row.  (When one  *)
(* of those writes throws, the failure carries that write's error.)        *)
(***************************************************************************)
C6_GasCeilingEnforced ==
    AboveCeiling =>
        /\ pc \in {"log_gas", "log_gas_high"} \cup FailurePath
        /\ OnlyFailedRows
        /\ ~Made("sendTelegramMessage")
        /\ ~Made("buildSwapTransaction")
        /\ result # None => ~Get(result).success
        /\ (LogOk("4_gas_check") /\ pc # "log_gas_high") =>
              \E i \in DOMAIN events : events[i].step = "4_gas_too_high"
        /\ (LogOk("4_gas_check") /\ LogOk("4_gas_too_high")) =>
              /\ err = Some(ErrGasTooHigh)
              /\ pc = "returned" =>
                    /\ Get(result) = FailureResult(ErrGasTooHigh)
                    /\ txRecords = <<FailedRecord(opportunity)>>

\* C6's case in simulation: a price between the configured maximum and the
\* default one, and the gas-price failure returned
C6_Witness ==
    /\ isSimulation
    /\ AboveCeiling
    /\ Get(gasGwei) <= DefaultMaxGasGwei
    /\ pc = "returned"
    /\ Get(result) = FailureResult(ErrGasTooHigh)
    /\ txRecords = <<FailedRecord(opportunity)>>

(***************************************************************************)
(* C7: in real mode with a resolved credential, when the queried balance   *)
(* is below 0.1 and the gas price is above the ceiling, the error returned *)
(* is the insufficient-balance error, not the gas-price error.             *)
(* Violated: the low balance only produces a warning (C4), so the gas      *)
(* check runs and its error is the one returned.  Stated for the runs in   *)
(* which no collaborator call throws.                                      *)
(***************************************************************************)
C7_BalanceBeforeGas ==
    (/\ ~isSimulation
     /\ maticBalance # None /\ Get(maticBalance) < MinMaticRequired
     /\ AboveCeiling
     /\ throws = 0
     /\ pc = "returned") =>
        Get(result) = FailureResult(ErrInsufficientBalance)

(***************************************************************************)
(* C8: when isSimulation=false and the loaded configuration has real       *)
(* trading off, the invocation fails with the trading-disabled error       *)
(* before the credential is resolved: the failure path is entered with     *)
(* that error, no balance, gas-price or quote call is made, every row      *)
(* written is 'failed', and a result returned is success=false with that   *)
(* error and one 'failed' row.  In simulation the flag is not consulted:   *)
(* the loaded configuration always leads to credential resolution and the  *)
(* trading-disabled error never occurs.                                    *)
(***************************************************************************)
C8_ModeGate ==
    /\ (~isSimulation /\ config # None /\ ~Get(config).enableRealTrading) =>
          /\ err = Some(ErrTradingDisabled)
          /\ pc \in FailurePath
          /\ privateKey = None
          /\ ~Made("getNativeBalance")
          /\ ~Made("getGasPrice")
          /\ ~Made("buildSwapTransaction")
          /\ OnlyFailedRows
          /\ Len(events) <= 4
          /\ pc = "returned" =>
                /\ Get(result) = FailureResult(ErrTradingDisabled)
                /\ txRecords = <<FailedRecord(opportunity)>>
    /\ (isSimulation /\ config # None) =>
          /\ privateKey # None
          /\ err # Some(ErrTradingDisabled)
    /\ (~isSimulation /\ config # None /\ Get(config).enableRealTrading) =>
          /\ privateKey # None
          /\ err # Some(ErrTradingDisabled)

\* C8's case: real mode, flag off, the trading-disabled failure returned
C8_Witness ==
    /\ ~isSimulation
    /\ config # None
    /\ ~Get(config).enableRealTrading
    /\ pc = "returned"
    /\ Get(result) = FailureResult(ErrTradingDisabled)

(***************************************************************************)
(* C9: simulation never requires a credential: with isSimulation=true, a   *)
(* configuration stored, no credential in it or in the environment, a gas  *)
(* price within the ceiling and no collaborator throwing, the failure path *)
(* is never entered, and the invocation returns success=true having        *)
(* written one row, with status 'success'.                                 *)
(***************************************************************************)
C9_SimulationNeedsNoCredential ==
    (/\ isSimulation
     /\ NoCredential
     /\ throws = 0
     /\ ~AboveCeiling) =>
        /\ pc \notin {"log_key_missing", "catch_log", "catch_tx", "rejected"}
        /\ err = None
        /\ ~Made("getNativeBalance")
        /\ pc = "returned" =>
              /\ Get(result) = SuccessResult("0xMOCK")
              /\ Len(txRecords) = 1
              /\ txRecords[1].status = "success"

\* C9's case: such a simulation has returned its success
C9_Witness ==
    /\ isSimulation
    /\ NoCredential
    /\ throws = 0
    /\ pc = "returned"
    /\ Get(result).success
    /\ txRecords = <<SimRecord(opportunity)>>

(***************************************************************************)
(* C10: with isSimulation=false, real trading enabled, a resolved          *)
(* credential, a sufficient balance, a gas price within the ceiling and no *)
(* collaborator throwing, the invocation has both swap legs built by the   *)
(* DexAggregator, writes one 'pending' row whose amountOut is the buy      *)
(* leg's toAmount, sends the submitted notification and returns            *)
(* success=true.                                                           *)
(* Violated: class DexAggregator declares no buildSwapTransaction, so the  *)
(* call in the real branch throws a TypeError and the invocation returns   *)
(* success=false with a 'failed' row.                                      *)
(***************************************************************************)
C10_RealModeSucceeds ==
    (/\ ~isSimulation
     /\ store # None /\ Get(store).enableRealTrading
     /\ privateKey # None /\ ValidKey(Get(privateKey))
     /\ maticBalance # None /\ Get(maticBalance) >= MinMaticRequired
     /\ gasGwei # None /\ ~AboveCeiling
     /\ throws = 0
     /\ Terminal) =>
        /\ pc = "returned"
        /\ Get(result) = SuccessResult("0xREAL")
        /\ buySwap # None /\ sellSwap # None
        /\ txRecords = <<PendingRecord(opportunity, Get(buySwap))>>
        /\ \E i \in DOMAIN events :
              events[i].op = "sendTelegramMessage" /\ events[i].step = "trade_pending"

(***************************************************************************)
(* C11: in a simulation run that returned success=true, the notification   *)
(* was sent if and only if opportunity.estimatedProfitUsd is greater than  *)
(* or equal to the stored notification threshold, 10 when the threshold is *)
(* unset; a profit equal to the threshold notifies.                        *)
(***************************************************************************)
C11_NotifiesFromThreshold ==
    (isSimulation /\ pc = "returned" /\ Get(result).success) =>
        LET threshold == IF Get(store).telegramProfitThresholdUsd = None
                         THEN 10
                         ELSE Get(Get(store).telegramProfitThresholdUsd)
            sent == \E i \in DOMAIN events :
                        /\ events[i].op = "sendTelegramMessage"
                        /\ events[i].step = "trade_success"
                        /\ events[i].ok
        IN  sent <=> opportunity.estimatedProfitUsd >= threshold

\* C11's case: a successful simulation whose profit equals the default
\* threshold has notified
C11_Witness ==
    /\ isSimulation
    /\ pc = "returned"
    /\ Get(result).success
    /\ Get(store).telegramProfitThresholdUsd = None
    /\ opportunity.estimatedProfitUsd = 10
    /\ Made("sendTelegramMessage")

C13_ValidExactlyWhenBothPass ==
    pc = "validated" =>
        LET minimum == IF store = None THEN 15
                       ELSE IF Get(store).minNetProfitPercent = None THEN 15
                       ELSE Get(Get(store).minNetProfitPercent)
            fresh == now - opportunity.timestamp <= 30000
            profitable == opportunity.netProfitPercent >= minimum
        IN  /\ Get(valid) => (fresh /\ profitable)
            /\ events[1].ok => (Get(valid) <=> (fresh /\ profitable))

\* C13's case: an opportunity exactly 30000 ms old whose profit equals the
\* default minimum was accepted
C13_Witness ==
    /\ pc = "validated"
    /\ now - opportunity.timestamp = 30000
    /\ opportunity.netProfitPercent = 15
    /\ (store = None \/ Get(store).minNetProfitPercent = None)
    /\ valid = Some(TRUE)

(***************************************************************************)
(* C14: validateOpportunity never throws: when getBotConfig throws, the    *)
(* call returns false instead of passing the error on, also for an         *)
(* opportunity that is fresh and profitable.                               *)
(***************************************************************************)
C14_ValidateNeverThrows ==
    /\ pc # "rejected"
    /\ thrown = None
    /\ (pc = "validated" /\ ~events[1].ok) => valid = Some(FALSE)

\* C14's case: getBotConfig threw on a fresh opportunity with a profit of
\* 0.20 and the call returned false
C14_Witness ==
    /\ pc = "validated"
    /\ events = <<[op |-> "getBotConfig", level |-> "", step |-> "", ok |-> FALSE]>>
    /\ now - opportunity.timestamp < 30000
    /\ opportunity.netProfitPercent = 20
    /\ valid = Some(FALSE)

(***************************************************************************)
(* C15: the quote source never passes a failure of the live API on: no     *)
(* call of getQuote or getTokenPrices throws; when an API key is           *)
(* configured and the HTTP request fails, getQuote returns a quote demo    *)
(* mode produces for the same parameters and getTokenPrices a price list   *)
(* demo mode produces for the same addresses; without an API key no HTTP   *)
(* request is made.                                                        *)
(***************************************************************************)
C15_LiveFailureFallsBack ==
    /\ pc # "rejected"
    /\ thrown = None
    /\ \A c \in Completed :
          /\ apiKey = None => c.request = "none"
          /\ (c.request = "failed" /\ c.method = "getQuote") =>
                /\ ~c.live
                /\ \E d \in {"1inch", "QuickSwap"} : c.value = DemoQuote(c.params, d)
          /\ (c.request = "failed" /\ c.method = "getTokenPrices") =>
                /\ ~c.live
                /\ Len(c.value) = Len(c.params)
                /\ \E draws \in [DOMAIN c.params -> Rand \X Rand] :
                      c.value = DemoPrices(c.params, draws)

\* C15's case: with an API key, a getQuote call and then a getTokenPrices
\* call whose requests failed have both returned demo-mode results
C15_Witness ==
    /\ apiKey # None
    /\ pc = "idle"
    /\ previous # None /\ last # None
    /\ Get(previous).method = "getQuote"
    /\ Get(previous).request = "failed"
    /\ Get(previous).params = [src |-> TOKENS.MATIC, dst |-> TOKENS.USDC, amount |-> 700000]
    /\ Get(previous).value.toAmount = 490000
    /\ Get(last).method = "getTokenPrices"
    /\ Get(last).request = "failed"
    /\ Len(Get(last).value) = 2

(***************************************************************************)
(* C16: with no API key configured, getQuote's toAmount is a function of   *)
(* (src, dst, amount) alone: for a pair of the demo-mode table the pair's  *)
(* fixed ratio is applied, up to the rounding of toFixed (0.7 for MATIC or *)
(* WMATIC to USDC, 1/0.7 for USDC to MATIC, 1/2500 for USDC to WETH, 2500  *)
(* for WETH to USDC); for every other pair toAmount equals the input       *)
(* amount; fromAmount is the input amount; two calls with the same         *)
(* parameters return the same fromAmount and toAmount.                     *)
(***************************************************************************)
C16_DemoAmountDeterministic ==
    apiKey = None =>
        /\ \A c \in CompletedQuotes :
              LET src == c.params.src
                  dst == c.params.dst
                  a == c.params.amount
                  t == c.value.toAmount
                  Within(x, y, e) == x - y <= e /\ y - x <= e
              IN  /\ c.value.fromAmount = a
                  /\ IF src \in {TOKENS.MATIC, TOKENS.WMATIC} /\ dst = TOKENS.USDC
                     THEN Within(10 * t, 7 * a, 500)
                     ELSE IF src = TOKENS.USDC /\ dst = TOKENS.MATIC
                     THEN Within(7 * t, 10 * a, 350)
                     ELSE IF src = TOKENS.USDC /\ dst = TOKENS.WETH
                     THEN Within(2500 * t, a, 1250)
                     ELSE IF src = TOKENS.WETH /\ dst = TOKENS.USDC
                     THEN Within(t, 2500 * a, 50)
                     ELSE t = a
        /\ \A c1 \in CompletedQuotes, c2 \in CompletedQuotes :
              c1.params = c2.params =>
                  /\ c1.value.fromAmount = c2.value.fromAmount
                  /\ c1.value.toAmount = c2.value.toAmount

\* C16's case: two calls with the same parameters, MATIC to USDC, returned
\* 0.7 times the amount both times, under different dex names
C16_Witness ==
    /\ apiKey = None
    /\ previous # None /\ last # None
    /\ Get(previous).method = "getQuote" /\ Get(last).method = "getQuote"
    /\ Get(previous).params = [src |-> TOKENS.MATIC, dst |-> TOKENS.USDC, amount |-> 700000]
    /\ Get(last).params = Get(previous).params
    /\ Get(previous).value.toAmount = 490000
    /\ Get(last).value.toAmount = 490000
    /\ Get(previous).value.dex # Get(last).value.dex

(***************************************************************************)
(* C17: the dex field of a returned SwapQuote tells which source produced  *)
(* it: a quote built from the live API's response and a quote produced by  *)
(* demo mode never carry the same dex value.                               *)
(* Violated: the live quote's dex is '1inch' and demo mode picks its dex   *)
(* at random between '1inch' and 'QuickSwap', so a demo-mode quote can     *)
(* carry the live API's name.                                              *)
(***************************************************************************)
C17_DexTellsSource ==
    \A c1 \in CompletedQuotes, c2 \in CompletedQuotes :
        (c1.live /\ ~c2.live) => c1.value.dex # c2.value.dex

(***************************************************************************)
(* C18, as the specification states it: in real mode with a resolved       *)
(* credential, once getNativeBalance or the derivation of the wallet       *)
(* address has thrown, a warning-level audit entry is written and the      *)
(* pipeline goes on to the gas-price query and, when the price is within   *)
(* the ceiling, to the real-mode branch; the error of the balance query is *)
(* never the returned error.                                               *)
(* Violated: the warning is written by an awaited createActivityLog call   *)
(* in the inner catch block; when that call throws, no warning is written  *)
(* and the invocation fails with that call's error before any gas-price    *)
(* query.                                                                  *)
(***************************************************************************)
C18_BalanceQueryNonFatal ==
    (~isSimulation /\ BalanceQueryFailed /\ pc # "log_balance_warn") =>
        /\ WarningWritten
        /\ pc = "get_gas" \/ Made("getGasPrice")
        /\ (gasGwei # None /\ ~AboveCeiling /\ pc # "log_gas") =>
              \E i \in DOMAIN events : events[i].step = "5_real_execution"
        /\ err # Some(CollabError("getNativeBalance"))

(***************************************************************************)
(* C18, as the code implements it: in real mode with a resolved            *)
(* credential, once getNativeBalance or the derivation of the wallet       *)
(* address has thrown, the next call is the warning-level audit write;     *)
(* when that write returns, the pipeline goes on to the gas-price query,   *)
(* and when the query and its audit write return with a price within the   *)
(* ceiling the real-mode branch is entered.  The error of the balance      *)
(* query is never the caught or the returned error.                        *)
(***************************************************************************)
C18_BalanceQueryWarns ==
    (~isSimulation /\ BalanceQueryFailed) =>
        /\ pc # "log_balance_warn" =>
              \E i \in DOMAIN events :
                  /\ events[i].level = "warning"
                  /\ events[i].step = "3_balance_check_failed"
                  /\ i > 1
                  /\ events[i - 1].op = "getNativeBalance" \/ events[i - 1].step = "2_key_validation"
        /\ WarningWritten => (pc = "get_gas" \/ Made("getGasPrice"))
        /\ (WarningWritten /\ gasGwei # None /\ ~AboveCeiling /\ LogOk("4_gas_check")) =>
              (pc = "log_real5" \/ \E i \in DOMAIN events : events[i].step = "5_real_execution")
        /\ err # Some(CollabError("getNativeBalance"))
        /\ result # None => Get(result).error # Some(CollabError("getNativeBalance"))
        /\ thrown # Some(CollabError("getNativeBalance"))

\* C18's case: getNativeBalance threw, nothing else did, the warning was
\* written and the real-mode branch was entered
C18_Witness ==
    /\ ~isSimulation
    /\ throws = 1
    /\ \E i \in DOMAIN events : events[i].op = "getNativeBalance" /\ ~events[i].ok
    /\ WarningWritten
    /\ gasGwei # None
    /\ LogOk("5_real_execution")

(***************************************************************************)
(* C19: the failure path is uniform: an invocation that has returned       *)
(* success=false made, as its last two collaborator calls, an error-level  *)
(* audit log write and then the write of one transaction row with status   *)
(* 'failed', transaction identifier '0x0' and amountOut, profitUsd,        *)
(* gasCostUsd and netProfitUsd all zero; no other 'failed' row was         *)
(* written; the returned error is the message of the error that ended the  *)
(* try block: the message of the call that threw, or else the message of   *)
(* the pipeline's own throw.                                               *)
(***************************************************************************)
C19_UniformFailurePath ==
    (pc = "returned" /\ ~Get(result).success) =>
        LET n == Len(events)
            m == Len(txRecords)
            trigger == events[n - 2]
            message ==
                IF ~trigger.ok THEN trigger.op \o " failed"
                ELSE IF trigger.op = "getBotConfig"
                THEN (IF store = None
                      THEN "Bot configuration not found"
                      ELSE "Real trading is disabled in configuration")
                ELSE IF trigger.step = "2_validation_failed"
                THEN "Private key not configured for real trading"
                ELSE IF trigger.step = "4_gas_too_high" THEN "Gas price too high"
                ELSE IF trigger.step = "5_real_execution" THEN ErrNotAFunction
                ELSE "none"
        IN  /\ n >= 3
            /\ events[n - 1] = [op |-> "createActivityLog", level |-> "error",
                                step |-> "trade_failed", ok |-> TRUE]
            /\ events[n] = [op |-> "createArbitrageTransaction", level |-> "",
                            step |-> "failed", ok |-> TRUE]
            /\ \A i \in 1..(n - 2) : events[i].step \notin {"trade_failed", "failed"}
            /\ m >= 1
            /\ txRecords[m].status = "failed"
            /\ txRecords[m].txHash = "0x0"
            /\ txRecords[m].amountOut = 0
            /\ txRecords[m].profitUsd = 0
            /\ txRecords[m].gasCostUsd = 0
            /\ txRecords[m].netProfitUsd = 0
            /\ \A i \in 1..(m - 1) : txRecords[i].status # "failed"
            /\ Get(result).error = Some(message)

\* C19's case: the gas price was above the ceiling and the invocation
\* returned the failure after the error log and the 'failed' row
C19_Witness ==
    /\ pc = "returned"
    /\ ~Get(result).success
    /\ Get(result).error = Some(ErrGasTooHigh)
    /\ txRecords = <<FailedRecord(opportunity)>>
    /\ events[Len(events) - 1].step = "trade_failed"

C21_QueriesOrderedOnce ==
    LET Calls(op) == {i \in DOMAIN events : events[i].op = op}
    IN  /\ Cardinality(Calls("getBotConfig")) <= 1
        /\ Cardinality(Calls("getNativeBalance")) <= 1
        /\ Cardinality(Calls("getGasPrice")) <= 1
        /\ events # <<>> =>
              /\ events[1].op = "createActivityLog"
              /\ events[1].step = "1_validation"
        /\ \A i \in Calls("getBotConfig") : i > 1
        /\ Calls("getNativeBalance") # {} =>
              /\ ~isSimulation
              /\ store # None
              /\ (Get(store).privateKey # "" \/ envKey # "")
        /\ \A i \in Calls("getNativeBalance"), j \in Calls("getGasPrice") : i < j
        /\ \A i \in Calls("createArbitrageTransaction") :
              events[i].step # "failed" =>
                  \E j \in Calls("getGasPrice") : j < i /\ events[j].ok
        /\ \A k \in DOMAIN txRecords :
              txRecords[k].status # "failed" => gasGwei # None

\* C21's case: a real-mode run queried the configuration, then the balance,
\* then the gas price, once each, and returned
C21_Witness ==
    /\ ~isSimulation
    /\ pc = "returned"
    /\ \E i, j, k \in DOMAIN events :
          /\ events[i].op = "getBotConfig"
          /\ events[j].op = "getNativeBalance"
          /\ events[k].op = "getGasPrice"
          /\ i < j /\ j < k

(***************************************************************************)
(* C22: two invocations of executeArbitrageTrade for the same user and the *)
(* same opportunity, interleaved at their awaits in any order, are neither *)
(* deduplicated nor serialized and share no state: both come to their end; *)
(* each writes its own transaction rows, two 'success' rows in total for   *)
(* two successful simulations; a simulation whose own calls all returned,  *)
(* with a gas price within the ceiling, returns success with its own row   *)
(* whatever the other invocation did; and two invocations in the same mode *)
(* whose calls received the same responses end in the same state.          *)
(***************************************************************************)
C22_ConcurrentInvocations ==
    /\ []IndependentOutcomes
    /\ <>(Settled(1) /\ Settled(2))

\* C22's case: the first simulation wrote its row and returned success
\* while the second one is suspended at the write of its own row
C22_Witness ==
    /\ other # None
    /\ active = 1
    /\ SimSucceeded(1)
    /\ Inv(1).txRecords = <<SimRecord(opportunity)>>
    /\ Inv(2).isSimulation
    /\ Inv(2).pc = "tx_sim"
    /\ Inv(2).txRecords = <<>>

C24_TableSymmetric ==
    \A c \in CompletedQuotes :
        (~c.live /\ c.value.toAmount # c.params.amount) =>
            LET back == DemoToAmount(c.params.dst, c.params.src, c.value.toAmount)
            IN  /\ back - c.params.amount <= 1250
                /\ c.params.amount - back <= 1250
                /\ \A r \in CompletedQuotes :
                      (/\ ~r.live
                       /\ r.params.src = c.params.dst
                       /\ r.params.dst = c.params.src) =>
                          r.value.toAmount # r.params.amount

====
